---- MODULE Spec2Model ----
(***************************************************************************)
(* Model of ricker_widget.py: createRicker, computePowerSpectrum and the   *)
(* Bokeh slider callback update_data.                                      *)
(*                                                                         *)
(* Time values are Python floats (IEEE-754 binary64).  They are modelled   *)
(* exactly: a float is sign * mantissa * 2^exponent with a 53 bit          *)
(* mantissa, every arithmetic operation rounds the exact result to nearest *)
(* (ties to even).  Mantissas do not fit TLC's integers, so they are       *)
(* naturals kept as little-endian sequences of 15 bit limbs ("Bn").        *)
(* Subnormals, infinities and signed zeros do not occur for the magnitudes *)
(* used here and are not modelled.                                         *)
(***************************************************************************)
EXTENDS Integers, Sequences, FiniteSets, TLC

RECURSIVE Eval(_, _)

\* ------------------------------------------------------------------------
\* Arbitrary-precision naturals (limb sequences, least significant first,
\* no leading zero limb; zero is the empty sequence).  Every operator is a
\* closed formula over the limbs (carries are found by look-ahead), and
\* yields a tuple.
\* ------------------------------------------------------------------------
Base == 2^15

Max(a, b) == IF a >= b THEN a ELSE b

Min(a, b) == IF a <= b THEN a ELSE b

Abs(n) == IF n < 0 THEN -n ELSE n

Sign(n) == IF n < 0 THEN -1 ELSE IF n = 0 THEN 0 ELSE 1

\* limb i of a, zero outside its length
Limb(a, i) == IF i >= 1 /\ i <= Len(a) THEN a[i] ELSE 0

\* number of bits of a limb
IntBitLen(n) == CHOOSE k \in 0..15 : n < 2^k /\ (k = 0 \/ n >= 2^(k - 1))

\* index of the most significant nonzero limb, 0 if there is none
TopLimb(a) ==
    CHOOSE k \in 0..Len(a) :
        (k = 0 \/ a[k] # 0) /\ \A j \in (k + 1)..Len(a) : a[j] = 0

\* drop leading zero limbs
BnNorm(a) == SubSeq(a, 1, TopLimb(a))

\* naturals below 2^31
BnFromInt(n) == BnNorm(<<n % Base, (n \div Base) % Base, n \div (Base * Base)>>)

BnToInt(a) == Limb(a, 1) + Base * Limb(a, 2) + Base * Base * Limb(a, 3)

\* a + b; the carry into limb i is found by look-ahead: some lower limb sum
\* overflows and every limb sum between it and i is at least Base - 1
BnAdd(a, b) == Eval("BnAdd", <<a, b>>)

BnAddBody(a, b) ==
    IF Len(a) + Len(b) = 0 THEN <<>>
    ELSE LET n  == Max(Len(a), Len(b)) + 1
             sm == [i \in 1..n |-> Limb(a, i) + Limb(b, i)] \o <<>>
         IN  BnNorm([i \in 1..n |->
                 (sm[i] + IF \E j \in 1..(i - 1) :
                                sm[j] >= Base
                                /\ \A k \in (j + 1)..(i - 1) : sm[k] >= Base - 1
                            THEN 1 ELSE 0) % Base] \o <<>>)

\* a - b for a >= b, with borrow look-ahead
BnSub(a, b) == Eval("BnSub", <<a, b>>)

BnSubBody(a, b) ==
    IF Len(b) = 0 THEN a
    ELSE LET n  == Len(a)
             df == [i \in 1..n |-> a[i] - Limb(b, i)] \o <<>>
         IN  BnNorm([i \in 1..n |->
                 (df[i] + Base - IF \E j \in 1..(i - 1) :
                                       df[j] < 0
                                       /\ \A k \in (j + 1)..(i - 1) : df[k] <= 0
                                   THEN 1 ELSE 0) % Base] \o <<>>)

\* -1, 0, 1 as a < b, a = b, a > b
BnCmp(a, b) ==
    IF Len(a) # Len(b) THEN Sign(Len(a) - Len(b))
    ELSE IF a = b THEN 0
    ELSE LET top == CHOOSE i \in 1..Len(a) :
                        a[i] # b[i] /\ \A j \in (i + 1)..Len(a) : a[j] = b[j]
         IN  Sign(a[top] - b[top])

\* a * k for 0 <= k < Base: low and high halves of the limb products
BnMulSmall(a, k) == Eval("BnMulSmall", <<a, k>>)

BnMulSmallBody(a, k) ==
    BnAdd([i \in 1..Len(a) |-> (a[i] * k) % Base] \o <<>>,
          [i \in 1..(Len(a) + 1) |-> (Limb(a, i - 1) * k) \div Base] \o <<>>)

\* digit k of a * b before carries, for a and b of at most four limbs:
\* the low halves of the limb products of column k plus the high halves
\* of those of column k - 1
MulColumn(a, b, k) ==
      ((Limb(a, 1) * Limb(b, k)) % Base)
    + ((Limb(a, 2) * Limb(b, k - 1)) % Base)
    + ((Limb(a, 3) * Limb(b, k - 2)) % Base)
    + ((Limb(a, 4) * Limb(b, k - 3)) % Base)
    + ((Limb(a, 1) * Limb(b, k - 1)) \div Base)
    + ((Limb(a, 2) * Limb(b, k - 2)) \div Base)
    + ((Limb(a, 3) * Limb(b, k - 3)) \div Base)
    + ((Limb(a, 4) * Limb(b, k - 4)) \div Base)

\* a * b for a and b of at most four limbs
BnMul(a, b) == Eval("BnMul", <<a, b>>)

BnMulBody(a, b) ==
    LET n   == Len(a) + Len(b)
        col == [k \in 1..n |-> MulColumn(a, b, k)] \o <<>>
    IN  BnAdd([k \in 1..n |-> col[k] % Base] \o <<>>,
              [k \in 1..n |-> Limb(col, k - 1) \div Base] \o <<>>)

\* a * 2^k
BnShl(a, k) == Eval("BnShl", <<a, k>>)

BnShlBody(a, k) ==
    LET w == k \div 15
        j == k % 15
    IN  BnNorm([i \in 1..(Len(a) + w + 1) |->
                  ((Limb(a, i - w) % 2^(15 - j)) * 2^j)
                    + (Limb(a, i - w - 1) \div 2^(15 - j))] \o <<>>)

\* floor(a / 2^k)
BnShr(a, k) == Eval("BnShr", <<a, k>>)

BnShrBody(a, k) ==
    LET w == k \div 15
        j == k % 15
    IN  BnNorm([i \in 1..(Len(a) - w) |->
                  (Limb(a, i + w) \div 2^j)
                    + (Limb(a, i + w + 1) % 2^j) * 2^(15 - j)] \o <<>>)

BnBitLen(a) == IF a = <<>> THEN 0 ELSE 15 * (Len(a) - 1) + IntBitLen(a[Len(a)])

BnIsOdd(a) == a # <<>> /\ a[1] % 2 = 1

\* bit k of a (bit 0 is the least significant)
BnBit(a, k) == (Limb(a, (k \div 15) + 1) \div 2^(k % 15)) % 2

\* whether a has a nonzero bit below bit k
BnLowBits(a, k) ==
    \E i \in 1..Len(a) :
        /\ 15 * (i - 1) < k
        /\ (IF 15 * i <= k THEN a[i] ELSE a[i] % 2^(k - 15 * (i - 1))) # 0

\* One step of schoolbook long division by d, whose top limb is at least
\* Base / 2: a zero limb is brought down to the remainder r < d, giving
\* cur = r * Base, and q is the largest digit with q * d <= cur.  The
\* estimate from the top limbs is at most 2 too large (Knuth 4.3.1 B).
BnDivStep(r, d) == Eval("BnDivStep", <<r, d>>)

BnDivStepBody(r, d) ==
    IF r = <<>> THEN [q |-> 0, r |-> <<>>]
    ELSE LET n   == Len(d)
             cur == <<0>> \o r
             qh  == Min((Limb(cur, n + 1) * Base + Limb(cur, n)) \div d[n],
                        Base - 1)
             p   == BnMulSmall(d, qh)
         IN  IF BnCmp(p, cur) <= 0 THEN [q |-> qh, r |-> BnSub(cur, p)]
             ELSE IF BnCmp(BnSub(p, d), cur) <= 0
             THEN [q |-> qh - 1, r |-> BnSub(cur, BnSub(p, d))]
             ELSE [q |-> qh - 2, r |-> BnSub(cur, BnSub(BnSub(p, d), d))]

\* ------------------------------------------------------------------------
\* Python floats: [s |-> sign, m |-> mantissa, e |-> exponent] stands for
\* s * m * 2^e.  A nonzero float has a mantissa of exactly MantissaBits
\* bits, so equal values have equal records; zero is FZero.
\* ------------------------------------------------------------------------
MantissaBits == 53

FZero == [s |-> 0, m |-> <<>>, e |-> 0]

\* s * n * 2^e rounded to nearest, ties to even
RoundDyadic(s, n, e) == Eval("RoundDyadic", <<s, n, e>>)

RoundDyadicBody(s, n, e) ==
    IF n = <<>> \/ s = 0 THEN FZero
    ELSE LET k == BnBitLen(n) - MantissaBits
         IN  IF k <= 0 THEN [s |-> s, m |-> BnShl(n, -k), e |-> e + k]
             ELSE LET keep == BnShr(n, k)
                      up   == BnBit(n, k - 1) = 1
                              /\ (BnLowBits(n, k - 1) \/ BnIsOdd(keep))
                      mm   == IF up THEN BnAdd(keep, <<1>>) ELSE keep
                  IN  IF BnBitLen(mm) > MantissaBits
                      THEN [s |-> s, m |-> BnShr(mm, 1), e |-> e + k + 1]
                      ELSE [s |-> s, m |-> mm, e |-> e + k]

\* float(k) for a Python int k
FromInt(k) == Eval("FromInt", <<k>>)

FromIntBody(k) == RoundDyadic(Sign(k), BnFromInt(Abs(k)), 0)

FNeg(a) == [a EXCEPT !.s = -a.s]

\* sign of a - b; mantissas have the same number of bits, so the exponents
\* decide unless they are equal
FCmp(a, b) == Eval("FCmp", <<a, b>>)

FCmpBody(a, b) ==
    IF a.s # b.s THEN Sign(a.s - b.s)
    ELSE IF a.s = 0 THEN 0
    ELSE IF a.e # b.e THEN a.s * Sign(a.e - b.e)
    ELSE a.s * BnCmp(a.m, b.m)

FAdd(a, b) == Eval("FAdd", <<a, b>>)

FAddBody(a, b) ==
    IF a.s = 0 THEN b
    ELSE IF b.s = 0 THEN a
    ELSE LET emin == Min(a.e, b.e)
             x    == BnShl(a.m, a.e - emin)
             y    == BnShl(b.m, b.e - emin)
             c    == BnCmp(x, y)
         IN  IF a.s = b.s THEN RoundDyadic(a.s, BnAdd(x, y), emin)
             ELSE IF c = 0 THEN FZero
             ELSE IF c > 0 THEN RoundDyadic(a.s, BnSub(x, y), emin)
             ELSE RoundDyadic(b.s, BnSub(y, x), emin)

FSub(a, b) == Eval("FSub", <<a, b>>)

FSubBody(a, b) == FAdd(a, FNeg(b))

FMul(a, b) == Eval("FMul", <<a, b>>)

FMulBody(a, b) ==
    IF a.s = 0 \/ b.s = 0 THEN FZero
    ELSE RoundDyadic(a.s * b.s, BnMul(a.m, b.m), a.e + b.e)

\* a / b for b # 0.  With d = b.m * 2^7 (top limb at least Base / 2) and
\* r0 = a.m * 2^3 < d, four division steps give the four limbs of
\* floor(a.m * 2^56 / b.m), 56 or 57 bits; one sticky bit for the remainder
\* is appended before rounding.
FDiv(a, b) == Eval("FDiv", <<a, b>>)

FDivBody(a, b) ==
    IF a.s = 0 THEN FZero
    ELSE LET d  == BnShl(b.m, 7)
             s1 == BnDivStep(BnShl(a.m, 3), d)
             s2 == BnDivStep(s1.r, d)
             s3 == BnDivStep(s2.r, d)
             s4 == BnDivStep(s3.r, d)
         IN  IF s1.q < 0 \/ s2.q < 0 \/ s3.q < 0 \/ s4.q < 0 THEN FZero
             ELSE RoundDyadic(a.s * b.s,
                              BnAdd(BnShl(<<s4.q, s3.q, s2.q, s1.q>>, 1),
                                    IF s4.r = <<>> THEN <<>> ELSE <<1>>),
                              a.e - b.e - 57)

\* the float a decimal literal n/d (d > 0) denotes
FromRatio(n, d) == Eval("FromRatio", <<n, d>>)

FromRatioBody(n, d) == FDiv(FromInt(n), FromInt(d))

\* |a| truncated to a natural
FTruncAbs(a) == Eval("FTruncAbs", <<a>>)

FTruncAbsBody(a) ==
    IF a.s = 0 THEN 0
    ELSE IF a.e >= 0 THEN BnToInt(BnShl(a.m, a.e))
    ELSE BnToInt(BnShr(a.m, -a.e))

FIsIntegral(a) ==
    a.s = 0 \/ a.e >= 0 \/ ~BnLowBits(a.m, -a.e)

\* int(a): truncation toward zero
FTrunc(a) == Eval("FTrunc", <<a>>)

FTruncBody(a) == a.s * FTruncAbs(a)

\* math.ceil(a)
FCeil(a) == Eval("FCeil", <<a>>)

FCeilBody(a) == IF a.s > 0 /\ ~FIsIntegral(a) THEN FTruncAbs(a) + 1 ELSE FTrunc(a)

\* ------------------------------------------------------------------------
\* numpy.arange(start, stop, step) for float arguments: the length is
\* ceil((stop - start) / step); element 0 is start, element 1 is
\* start + step, and element i >= 2 is start + i * delta with
\* delta = (start + step) - start.
\* ------------------------------------------------------------------------
ArangeLen(start, stop, step) == Eval("ArangeLen", <<start, stop, step>>)

ArangeLenBody(start, stop, step) == Max(0, FCeil(FDiv(FSub(stop, start), step)))

Arange(start, stop, step) == Eval("Arange", <<start, stop, step>>)

ArangeBody(start, stop, step) ==
    LET n     == ArangeLen(start, stop, step)
        next  == FAdd(start, step)
        delta == FSub(next, start)
    IN  [i \in 1..n |->
            IF i = 1 THEN start
            ELSE IF i = 2 THEN next
            ELSE FAdd(start, FMul(FromInt(i - 1), delta))] \o <<>>

\* ------------------------------------------------------------------------
\* Amplitudes are fixed-point integers, AmpScale units to 1.0.  The Ricker
\* formula is evaluated in fixed point: pi^2 as PiSquaredCenti / 100,
\* exp(-x) by its series on [0, 1) and exp(-1) as ExpMinusOne / ExpScale.
\* ------------------------------------------------------------------------
AmpScale == 100

PiSquaredCenti == 987

ExpScale == 10000

ExpMinusOne == 3679

\* beyond this phase (in 1/1000 cycle) the envelope is below the resolution
PhaseCap == 1400

\* ExpScale * (1 - x/k (1 - x/(k+1) (...))) for x = xm / 1000 in [0, 1)
RECURSIVE ExpSeries(_, _)
ExpSeries(xm, k) ==
    IF k > 7 THEN ExpScale
    ELSE ExpScale - ((xm * ExpSeries(xm, k + 1)) \div (1000 * k))

\* ExpScale * exp(-xm / 1000)
RECURSIVE ExpNeg(_)
ExpNeg(xm) ==
    IF xm >= 1000
    THEN LET h == ExpNeg((xm - 1000) \div 2)
         IN  (ExpMinusOne * ((h * h) \div ExpScale)) \div ExpScale
    ELSE ExpSeries(xm, 1)

\* integer division rounding toward zero
DivTrunc(a, b) == Sign(a) * Sign(b) * (Abs(a) \div Abs(b))

\* scalar * (1 - 0.5 omega^2 (t/1000)^2) * exp(-0.25 omega^2 (t/1000)^2), with
\* omega = 2 pi fpeak and t in ms: x = 0.25 omega^2 (t/1000)^2 = pi^2 (fpeak t / 1000)^2
RickerAmplitude(fpeak, scalar, t) == Eval("RickerAmplitude", <<fpeak, scalar, t>>)

RickerAmplitudeBody(fpeak, scalar, t) ==
    LET tMicro == FTruncAbs(FMul(t, FromInt(1000)))
        phase  == (fpeak * tMicro) \div 1000
        xm     == (PiSquaredCenti * phase * phase) \div 100000
    IN  IF phase > PhaseCap THEN 0
        ELSE scalar * DivTrunc((1000 - 2 * xm) * ExpNeg(xm),
                               (1000 * ExpScale) \div AmpScale)

IndexLimitOf(signalLength, sampleRate) == Eval("IndexLimitOf", <<signalLength, sampleRate>>)

IndexLimitOfBody(signalLength, sampleRate) ==
    FTrunc(FDiv(FDiv(signalLength, FromInt(2)), sampleRate))

RickerTimes(signalLength, sampleRate) == Eval("RickerTimes", <<signalLength, sampleRate>>)

RickerTimesBody(signalLength, sampleRate) ==
    LET indexLimit == IndexLimitOf(signalLength, sampleRate)
    IN  Arange(FMul(FromInt(-indexLimit), sampleRate),
               FMul(FromInt(indexLimit + 1), sampleRate),
               sampleRate)

\* createRicker: the pair (ricker, t)
createRicker(fpeak, scalar, signalLength, sampleRate) == Eval("createRicker", <<fpeak, scalar, signalLength, sampleRate>>)

createRickerBody(fpeak, scalar, signalLength, sampleRate) ==
    LET times == RickerTimes(signalLength, sampleRate)
    IN  [ricker |-> [i \in 1..Len(times) |->
                        RickerAmplitude(fpeak, scalar, times[i])] \o <<>>,
         t      |-> times]

\* ------------------------------------------------------------------------
\* computePowerSpectrum.  The transform is evaluated in fixed point:
\* cosine and sine of a fraction a / n of a turn are CosScale times
\* Bhaskara's rational approximations, which keep cos(-x) = cos(x) and
\* sin(-x) = -sin(x) exactly, so the power of a real signal is exactly
\* mirror-symmetric.  Power is in squared amplitude units.
\* ------------------------------------------------------------------------
CosScale == 1000

\* CosScale * cos(pi * h / n) for 0 <= 2 * h <= n
CosHalf(h, n) == (CosScale * (n * n - 4 * h * h)) \div (n * n + h * h)

\* CosScale * cos(2 pi a / n) for 0 <= a < n
CosTurn(a, n) ==
    LET h == 2 * Min(a, n - a)
    IN  IF 2 * h <= n THEN CosHalf(h, n) ELSE -CosHalf(n - h, n)

\* CosScale * sin(pi * h / n) for 0 <= h <= n
SinHalf(h, n) == (CosScale * 16 * h * (n - h)) \div (5 * n * n - 4 * h * (n - h))

\* CosScale * sin(2 pi a / n) for 0 <= a < n
SinTurn(a, n) == IF 2 * a <= n THEN SinHalf(2 * a, n) ELSE -SinHalf(2 * (n - a), n)

\* f[lo] + ... + f[hi], by halves
RECURSIVE SumOver(_, _, _)
SumOver(f, lo, hi) ==
    IF lo > hi THEN 0
    ELSE IF lo = hi THEN f[lo]
    ELSE SumOver(f, lo, (lo + hi) \div 2) + SumOver(f, ((lo + hi) \div 2) + 1, hi)

\* |fft(wavelet, norm='ortho')[k]|^2 for k in 0..len-1, given the tables
\* cosines[a + 1] = CosTurn(a, len) and sines[a + 1] = SinTurn(a, len)
PowerBin(wavelet, k, cosines, sines) ==
    LET n  == Len(wavelet)
        re == DivTrunc(SumOver([j \in 1..n |->
                          wavelet[j] * cosines[((k * (j - 1)) % n) + 1]], 1, n),
                       CosScale)
        im == DivTrunc(SumOver([j \in 1..n |->
                          -wavelet[j] * sines[((k * (j - 1)) % n) + 1]], 1, n),
                       CosScale)
    IN  (re * re + im * im) \div n

\* np.abs(np.fft.fft(wavelet, norm='ortho'))**2, the two-sided spectrum
TwoSidedPower(wavelet) == Eval("TwoSidedPower", <<wavelet>>)

TwoSidedPowerBody(wavelet) ==
    LET n       == Len(wavelet)
        cosines == [a \in 1..n |-> CosTurn(a - 1, n)] \o <<>>
        sines   == [a \in 1..n |-> SinTurn(a - 1, n)] \o <<>>
    IN  [k \in 1..n |-> PowerBin(wavelet, k - 1, cosines, sines)]

\* the exclusive end of the Python slice [1 : stop] of a sequence of length n
SliceStop(stop, n) == IF stop < 0 THEN Max(stop + n, 0) ELSE Min(stop, n)

\* A folding that doubles the DC bin as well
OneSidedAllDoubled(power, indexLimit) ==
    [k \in 1..Max(SliceStop(indexLimit + 1, Cardinality(DOMAIN power)), 1) |->
        2 * power[k]] \o <<>>

\* np.append(power[0], 2 * power[1 : indexLimit + 1])
OneSided(power, indexLimit) ==
    [k \in 1..Max(SliceStop(indexLimit + 1, Cardinality(DOMAIN power)), 1) |->
        IF k = 1 THEN power[1] ELSE 2 * power[k]] \o <<>>

\* A normalisation by the DC bin instead of the largest bin
FirstPower(power) == power[1]

\* np.max(power)
MaxPower(power) == CHOOSE m \in {power[k] : k \in 1..Len(power)} :
                       \A k \in 1..Len(power) : power[k] <= m

\* the fraction bits of log2(y / 2^14) for 2^14 <= y < 2^15, most
\* significant first: square, and halve when the square reaches 2
RECURSIVE Log2Frac(_, _)
Log2Frac(y, bits) ==
    IF bits = 0 THEN 0
    ELSE LET sq == (y * y) \div 2^14
         IN  IF sq >= 2^15 THEN 2^(bits - 1) + Log2Frac(sq \div 2, bits - 1)
             ELSE Log2Frac(sq, bits - 1)

\* 256 * log2(r) rounded down, for a float r > 0
Log2Fixed(r) ==
    256 * (r.e + MantissaBits - 1) + Log2Frac(BnToInt(BnShr(r.m, MantissaBits - 15)), 8)

\* 10 * np.log10(p / m) for powers p, m >= 0, in hundredths of a dB:
\* 0 / 0 is nan, log10(0) is -inf
Decibel(p, m) == Eval("Decibel", <<p, m>>)

DecibelBody(p, m) ==
    IF m = 0 THEN [class |-> IF p = 0 THEN "nan" ELSE "inf", centi |-> 0]
    ELSE IF p = 0 THEN [class |-> "-inf", centi |-> 0]
    ELSE [class |-> "finite",
          centi |-> (30103 * Log2Fixed(FDiv(FromInt(p), FromInt(m)))) \div 25600]

NoResult(error) == [error |-> error, power |-> <<>>, powerNormdB |-> <<>>, freq |-> <<>>]

\* int(signalLength / 2 / sampleRate) for sampleRate = 0 (numpy floats):
\* the quotient is nan or infinite, and int() raises
IntOfNonFinite(signalLength) ==
    IF signalLength.s = 0 THEN "ValueError: cannot convert float NaN to integer"
    ELSE "OverflowError"

\* A frequency bin as wide as the one-sided bin count would make it
ScaleFactorOneSided(sampleRate, indexLimit) ==
    FDiv(FromInt(1), FMul(FDiv(sampleRate, FromInt(1000)), FromInt(indexLimit + 1)))

\* scaleFactor = 1 / ((sampleRate/1000) * (2*indexLimit+1))
ScaleFactor(sampleRate, indexLimit) ==
    FDiv(FromInt(1), FMul(FDiv(sampleRate, FromInt(1000)), FromInt(2 * indexLimit + 1)))

\* The statements of computePowerSpectrum after the two length checks, for
\* a time vector of at least two elements.
SpectrumOf(wavelet, timeVector) == Eval("SpectrumOf", <<wavelet, timeVector>>)

SpectrumOfBody(wavelet, timeVector) ==
    LET signalLength == FSub(timeVector[Len(timeVector)], timeVector[1])
        sampleRate   == FSub(timeVector[2], timeVector[1])
        indexLimit   == IndexLimitOf(signalLength, sampleRate)
        power        == OneSided(TwoSidedPower(wavelet), indexLimit)
        top          == MaxPower(power)
        scaleFactor  == ScaleFactor(sampleRate, indexLimit)
    IN  IF sampleRate.s = 0 THEN NoResult(IntOfNonFinite(signalLength))
        ELSE [error       |-> "none",
              power       |-> power,
              powerNormdB |-> [k \in 1..Len(power) |->
                                  Decibel(power[k], top)] \o <<>>,
              freq        |-> [k \in 1..Max(indexLimit + 1, 0) |->
                                  FMul(scaleFactor, FromInt(k - 1))] \o <<>>]

\* computePowerSpectrum without its second check
UncheckedLengths(wavelet, timeVector) ==
    IF Len(wavelet) % 2 = 0
    THEN NoResult("ValueError: Given signal contains an even number of elements.")
    ELSE IF Len(timeVector) < 2 THEN NoResult("IndexError")
    ELSE SpectrumOf(wavelet, timeVector)

\* computePowerSpectrum: what it raises, or (power, powerNormdB, freq)
computePowerSpectrum(wavelet, timeVector) ==
    IF Len(wavelet) % 2 = 0
    THEN NoResult("ValueError: Given signal contains an even number of elements.")
    ELSE IF Len(wavelet) # Len(timeVector)
    THEN NoResult("ValueError: The wavelet and time vector do not have same number of elements")
    ELSE IF Len(timeVector) < 2 THEN NoResult("IndexError")
    ELSE SpectrumOf(wavelet, timeVector)

\* ------------------------------------------------------------------------
\* The Bokeh application: four sliders, two data sources, two plots.
\* ------------------------------------------------------------------------
DefaultFpeak == 20

DefaultScalar == 1

DefaultSignalLength == 256

DefaultSampleRate == 4

\* the sliders' ranges (start, end, step); the sample rate slider moves in
\* steps of 0.5 and its positions are counted in halves
FpeakRange == 1..100

ScalarRange == -10..10

SignalLengthRange == 1..2096

SampleRateHalves == 2..50

FAbs(a) == [a EXCEPT !.s = Abs(a.s)]

\* the nearest integer to a, ties to even
FRint(a) == Eval("FRint", <<a>>)

FRintBody(a) ==
    LET whole == FTruncAbs(a)
        c     == FCmp(FSub(FAbs(a), FromInt(whole)), FromRatio(1, 2))
    IN  a.s * (IF c > 0 \/ (c = 0 /\ whole % 2 = 1) THEN whole + 1 ELSE whole)

\* round(a, digits) as a count of 10^-digits, scale = 10^digits
Round(a, scale) == Eval("Round", <<a, scale>>)

RoundBody(a, scale) == FRint(FMul(a, FromInt(scale)))

\* the largest of x[lo..hi], by halves
RECURSIVE FMaxIn(_, _, _)
FMaxIn(x, lo, hi) ==
    IF lo = hi THEN x[lo]
    ELSE LET l == FMaxIn(x, lo, (lo + hi) \div 2)
             r == FMaxIn(x, ((lo + hi) \div 2) + 1, hi)
         IN  IF FCmp(l, r) >= 0 THEN l ELSE r

\* x.max() and x.min() of a nonempty float array
FMax(x) == Eval("FMax", <<x>>)

FMaxBody(x) == FMaxIn(x, 1, Len(x))

FMin(x) == Eval("FMin", <<x>>)

FMinBody(x) == FNeg(FMaxIn([i \in 1..Len(x) |-> FNeg(x[i])] \o <<>>, 1, Len(x)))

\* abs(y).max() of a nonempty amplitude array
AbsMax(y) == CHOOSE m \in {Abs(y[i]) : i \in 1..Len(y)} :
                 \A i \in 1..Len(y) : Abs(y[i]) <= m

\* ColumnDataSource(data=dict(x=..., y=...))
ColumnData(x, y) == [x |-> x, y |-> y]

\* The series and spectrum computed when the module is loaded.
InitialSeries == Eval("InitialSeries", <<>>)

InitialSeriesBody ==
    createRicker(DefaultFpeak, DefaultScalar,
                 FromInt(DefaultSignalLength), FromInt(DefaultSampleRate))

InitialSpectrum == Eval("InitialSpectrum", <<>>)

InitialSpectrumBody == computePowerSpectrum(InitialSeries.ricker, InitialSeries.t)

\* plot1 and plot2 as first drawn.  The y range of plot1 is 1.1 times an
\* amplitude and is kept in tenths of an amplitude unit; the y range of
\* plot2 is fixed at -62.5 .. 2.5 dB.
InitialPlot1 == Eval("InitialPlot1", <<>>)

InitialPlot1Body ==
    [x_start |-> FNeg(FMax(InitialSeries.t)),
     x_end   |-> FMax(InitialSeries.t),
     y_start |-> -11 * AbsMax(InitialSeries.ricker),
     y_end   |-> 11 * AbsMax(InitialSeries.ricker),
     title   |-> [text |-> "Wavelet in time-domain", length |-> FZero, dt |-> 0]]

InitialPlot2 == Eval("InitialPlot2", <<>>)

InitialPlot2Body ==
    [x_start |-> FZero,
     x_end   |-> FMax(InitialSpectrum.freq),
     y_start |-> FromRatio(-125, 2),
     y_end   |-> FromRatio(5, 2),
     title   |-> [text |-> "Power Spectrum", maxfreq |-> 0, df |-> 0]]

\* sources and plots once the module is loaded
InitialDisplay == Eval("InitialDisplay", <<>>)

InitialDisplayBody ==
    [source  |-> ColumnData(InitialSeries.t, InitialSeries.ricker),
     source2 |-> ColumnData(InitialSpectrum.freq, InitialSpectrum.powerNormdB),
     plot1   |-> InitialPlot1,
     plot2   |-> InitialPlot2]

\* The display update_data leaves behind when nothing raises: both sources
\* are replaced, then the plot ranges and titles are taken from them.
Redraw(made, spectrum, display) == Eval("Redraw", <<made, spectrum, display>>)

RedrawBody(made, spectrum, display) ==
    [source  |-> ColumnData(made.t, made.ricker),
     source2 |-> ColumnData(spectrum.freq, spectrum.powerNormdB),
     plot1   |-> [x_start |-> FMin(made.t),
                  x_end   |-> FMax(made.t),
                  y_start |-> -11 * AbsMax(made.ricker),
                  y_end   |-> 11 * AbsMax(made.ricker),
                  title   |-> [text   |-> "Wavelet - actual length",
                               length |-> FSub(FMax(made.t), FMin(made.t)),
                               dt     |-> Round(FSub(made.t[2], made.t[1]), 10)]],
     plot2   |-> [display.plot2 EXCEPT
                    !.x_end = FMax(spectrum.freq),
                    !.title = [text    |-> "Power Spectrum - max freq",
                               maxfreq |-> Round(FMax(spectrum.freq), 100),
                               df      |-> Round(FSub(spectrum.freq[2],
                                                      spectrum.freq[1]), 100)]]]

\* An update_data that assigns source before computing the spectrum
SourceFirst(w, display) ==
    LET made     == createRicker(w.fpeak, w.scalar,
                                 FromInt(w.signalLength), w.sampleRate)
        spectrum == computePowerSpectrum(made.ricker, made.t)
    IN  IF spectrum.error # "none"
        THEN [display EXCEPT !.source = ColumnData(made.t, made.ricker)]
        ELSE Redraw(made, spectrum, display)

\* update_data for slider values w, starting from the given display: an
\* error raised by computePowerSpectrum leaves the callback before either
\* source is assigned.
update_data(w, display) == Eval("update_data", <<w, display>>)

update_dataBody(w, display) ==
    LET made     == createRicker(w.fpeak, w.scalar,
                                 FromInt(w.signalLength), w.sampleRate)
        spectrum == computePowerSpectrum(made.ricker, made.t)
    IN  IF spectrum.error # "none" THEN display
        ELSE Redraw(made, spectrum, display)

\* ------------------------------------------------------------------------
\* Eval(op, x) is operator op applied to the arguments x: every F above that
\* is defined as Eval("F", ...) has its definition in FBody.  Evaluating
\* them through one recursive operator keeps the expression graph of a
\* specification as large as the module, not as large as its unfolding.
\* ------------------------------------------------------------------------
Eval(op, x) ==
    CASE op = "BnAdd" -> BnAddBody(x[1], x[2])
      [] op = "BnSub" -> BnSubBody(x[1], x[2])
      [] op = "BnMulSmall" -> BnMulSmallBody(x[1], x[2])
      [] op = "BnMul" -> BnMulBody(x[1], x[2])
      [] op = "BnShl" -> BnShlBody(x[1], x[2])
      [] op = "BnShr" -> BnShrBody(x[1], x[2])
      [] op = "BnDivStep" -> BnDivStepBody(x[1], x[2])
      [] op = "RoundDyadic" -> RoundDyadicBody(x[1], x[2], x[3])
      [] op = "FromInt" -> FromIntBody(x[1])
      [] op = "FCmp" -> FCmpBody(x[1], x[2])
      [] op = "FAdd" -> FAddBody(x[1], x[2])
      [] op = "FSub" -> FSubBody(x[1], x[2])
      [] op = "FMul" -> FMulBody(x[1], x[2])
      [] op = "FDiv" -> FDivBody(x[1], x[2])
      [] op = "FromRatio" -> FromRatioBody(x[1], x[2])
      [] op = "FTruncAbs" -> FTruncAbsBody(x[1])
      [] op = "FTrunc" -> FTruncBody(x[1])
      [] op = "FCeil" -> FCeilBody(x[1])
      [] op = "ArangeLen" -> ArangeLenBody(x[1], x[2], x[3])
      [] op = "Arange" -> ArangeBody(x[1], x[2], x[3])
      [] op = "RickerAmplitude" -> RickerAmplitudeBody(x[1], x[2], x[3])
      [] op = "IndexLimitOf" -> IndexLimitOfBody(x[1], x[2])
      [] op = "RickerTimes" -> RickerTimesBody(x[1], x[2])
      [] op = "createRicker" -> createRickerBody(x[1], x[2], x[3], x[4])
      [] op = "TwoSidedPower" -> TwoSidedPowerBody(x[1])
      [] op = "Decibel" -> DecibelBody(x[1], x[2])
      [] op = "SpectrumOf" -> SpectrumOfBody(x[1], x[2])
      [] op = "FRint" -> FRintBody(x[1])
      [] op = "Round" -> RoundBody(x[1], x[2])
      [] op = "FMax" -> FMaxBody(x[1])
      [] op = "FMin" -> FMinBody(x[1])
      [] op = "InitialSeries" -> InitialSeriesBody
      [] op = "InitialSpectrum" -> InitialSpectrumBody
      [] op = "InitialPlot1" -> InitialPlot1Body
      [] op = "InitialPlot2" -> InitialPlot2Body
      [] op = "InitialDisplay" -> InitialDisplayBody
      [] op = "Redraw" -> RedrawBody(x[1], x[2], x[3])
      [] op = "update_data" -> update_dataBody(x[1], x[2])

\* ------------------------------------------------------------------------
\* State.
\* ------------------------------------------------------------------------
VARIABLES
    fpeak_widget,          \* value of the "Dominant Frequency (Hz)" slider
    scalar_widget,         \* value of the "Maximum Amplitude" slider
    signalLength_widget,   \* value of the "Wavelet Length (ms)" slider
    sampleRate_widget,     \* value of the "Sample Rate (ms)" slider, a float
    source,                \* source.data: x = t, y = ricker
    source2,               \* source2.data: x = freq, y = powerNormdB
    plot1,                 \* ranges and title of the wavelet plot
    plot2,                 \* ranges and title of the spectrum plot
    pc,                    \* direct use of the two functions: what has been called
    call,                  \* ... with which arguments
    series,                \* ... the (ricker, t) at hand
    result                 \* ... what computePowerSpectrum returned or raised

widgets == <<fpeak_widget, scalar_widget, signalLength_widget, sampleRate_widget>>

display == <<source, source2, plot1, plot2>>

api == <<pc, call, series, result>>

vars == <<fpeak_widget, scalar_widget, signalLength_widget, sampleRate_widget,
          source, source2, plot1, plot2, pc, call, series, result>>

NoCall == [kind |-> "none", fpeak |-> 0, scalar |-> 0,
           signalLength |-> FZero, sampleRate |-> FZero]

NoSeries == [ricker |-> <<>>, t |-> <<>>]

Init ==
    /\ fpeak_widget = DefaultFpeak
    /\ scalar_widget = DefaultScalar
    /\ signalLength_widget = DefaultSignalLength
    /\ sampleRate_widget = FromInt(DefaultSampleRate)
    /\ \E shown \in {InitialDisplay} :
          /\ source = shown.source
          /\ source2 = shown.source2
          /\ plot1 = shown.plot1
          /\ plot2 = shown.plot2
    /\ pc = "idle"
    /\ call = NoCall
    /\ series = NoSeries
    /\ result = NoResult("not called")

\* ------------------------------------------------------------------------
\* Slider changes.  Bokeh sets the widget's value and, the value having
\* changed, runs update_data to completion.
\* ------------------------------------------------------------------------
MaxScalar == 1

FpeakChoices == {DefaultFpeak, 100} \cap FpeakRange

ScalarChoices == {-MaxScalar, 0, MaxScalar} \cap ScalarRange

SignalLengthChoices == {1, 8, 24} \cap SignalLengthRange

SampleRateChoices == {FromRatio(h, 2) : h \in {2 * DefaultSampleRate, 25} \cap SampleRateHalves}

Refresh(w) ==
    \E shown \in {update_data(w, [source |-> source, source2 |-> source2,
                                  plot1 |-> plot1, plot2 |-> plot2])} :
        /\ source' = shown.source
        /\ source2' = shown.source2
        /\ plot1' = shown.plot1
        /\ plot2' = shown.plot2

SetFpeak(v) ==
    /\ v # fpeak_widget
    /\ fpeak_widget' = v
    /\ Refresh([fpeak |-> v, scalar |-> scalar_widget,
                signalLength |-> signalLength_widget, sampleRate |-> sampleRate_widget])
    /\ UNCHANGED <<scalar_widget, signalLength_widget, sampleRate_widget, api>>

SetScalar(v) ==
    /\ v # scalar_widget
    /\ scalar_widget' = v
    /\ Refresh([fpeak |-> fpeak_widget, scalar |-> v,
                signalLength |-> signalLength_widget, sampleRate |-> sampleRate_widget])
    /\ UNCHANGED <<fpeak_widget, signalLength_widget, sampleRate_widget, api>>

SetSignalLength(v) ==
    /\ v # signalLength_widget
    /\ signalLength_widget' = v
    /\ Refresh([fpeak |-> fpeak_widget, scalar |-> scalar_widget,
                signalLength |-> v, sampleRate |-> sampleRate_widget])
    /\ UNCHANGED <<fpeak_widget, scalar_widget, sampleRate_widget, api>>

SetSampleRate(v) ==
    /\ v # sampleRate_widget
    /\ sampleRate_widget' = v
    /\ Refresh([fpeak |-> fpeak_widget, scalar |-> scalar_widget,
                signalLength |-> signalLength_widget, sampleRate |-> v])
    /\ UNCHANGED <<fpeak_widget, scalar_widget, signalLength_widget, api>>

Next ==
    \/ \E v \in FpeakChoices : SetFpeak(v)
    \/ \E v \in ScalarChoices : SetScalar(v)
    \/ \E v \in SignalLengthChoices : SetSignalLength(v)
    \/ \E v \in SampleRateChoices : SetSampleRate(v)

Spec == Init /\ [][Next]_vars

\* ------------------------------------------------------------------------
\* The two functions called directly, on arguments the sliders cannot give.
\* computePowerSpectrum reads of its time vector only the length and the
\* first, second and last element, so the time vectors tried are all
\* choices of those.
\* ------------------------------------------------------------------------
MaxSignalLength == 6

MaxTime == 3

MaxLen == 5

\* sample rates in tenths of a millisecond
SampleRateTenths == {1, 4, 7, 10, 25, 40}

SignalLengths == {FromInt(n) : n \in 1..MaxSignalLength}

SampleRates == {FromRatio(n, 10) : n \in SampleRateTenths}

TimeValues == {FromInt(n) : n \in -MaxTime..MaxTime}

TimeVector(n, first, second, last) ==
    [i \in 1..n |->
        IF i = n THEN last ELSE IF i = 1 THEN first ELSE second] \o <<>>

Wavelets ==
    {<<>>, <<100>>, <<1, 2>>, <<100, -50, 100>>, <<0, 0, 0>>, <<1, 2, 3, 4>>,
     <<-20, 60, 100, 60, -20>>}

Synthesize(f, s, length, rate) ==
    /\ pc = "idle"
    /\ pc' = "synthesized"
    /\ call' = [kind |-> "createRicker", fpeak |-> f, scalar |-> s,
                signalLength |-> length, sampleRate |-> rate]
    /\ series' = createRicker(f, s, length, rate)
    /\ UNCHANGED <<result, widgets, display>>

AnalyzeSeries ==
    /\ pc = "synthesized"
    /\ pc' = "analyzed"
    /\ result' = computePowerSpectrum(series.ricker, series.t)
    /\ UNCHANGED <<call, series, widgets, display>>

AnalyzeDirect(wavelet, timeVector) ==
    /\ pc = "idle"
    /\ pc' = "analyzed"
    /\ call' = [NoCall EXCEPT !.kind = "computePowerSpectrum"]
    /\ series' = [ricker |-> wavelet, t |-> timeVector]
    /\ result' = computePowerSpectrum(wavelet, timeVector)
    /\ UNCHANGED <<widgets, display>>

Discard ==
    /\ pc # "idle"
    /\ pc' = "idle"
    /\ call' = NoCall
    /\ series' = NoSeries
    /\ result' = NoResult("not called")
    /\ UNCHANGED <<widgets, display>>

NextApi ==
    \/ \E f \in FpeakChoices, s \in ScalarChoices :
         \E length \in SignalLengths, rate \in SampleRates :
            Synthesize(f, s, length, rate)
    \/ AnalyzeSeries
    \/ \E wavelet \in Wavelets, n \in 0..MaxLen :
         \E first, second, last \in TimeValues :
            AnalyzeDirect(wavelet, TimeVector(n, first, second, last))
    \/ Discard

SpecApi == Init /\ [][NextApi]_vars

\* ------------------------------------------------------------------------
\* Properties.
\* ------------------------------------------------------------------------
\* a series returned by createRicker is at hand
Made == pc \in {"synthesized", "analyzed"} /\ call.kind = "createRicker"

\* computePowerSpectrum has been applied to the series at hand and returned
Returned == pc = "analyzed" /\ result.error = "none"

\* the indexLimit createRicker computed for the call at hand
UsedIndexLimit == IndexLimitOf(call.signalLength, call.sampleRate)

\* int((t[last] - t[first]) / 2 / (t[1] - t[0])) for the series at hand
RederivedIndexLimit ==
    IndexLimitOf(FSub(series.t[Len(series.t)], series.t[1]),
                 FSub(series.t[2], series.t[1]))

\* the sample interval computePowerSpectrum derives, t[1] - t[0]
DerivedSampleRate == FSub(series.t[2], series.t[1])

EvenMessage == "ValueError: Given signal contains an even number of elements."

MismatchMessage ==
    "ValueError: The wavelet and time vector do not have same number of elements"

\* C1: for every signalLength > 0 and sampleRate > 0, createRicker returns a
\* time vector and an amplitude vector of the same length, that length is
\* 2 * indexLimit + 1 with indexLimit = int(signalLength / 2 / sampleRate),
\* and so it is odd.
C1_OddLength ==
    Made =>
        /\ Len(series.t) = Len(series.ricker)
        /\ Len(series.t) = 2 * UsedIndexLimit + 1
        /\ Len(series.t) % 2 = 1

\* C2: for every signalLength > 0 and sampleRate > 0, the time vector of
\* createRicker is symmetric about zero (t[i] = -t[len-1-i]), its element at
\* index (len-1)/2 is exactly 0, and consecutive elements differ by exactly
\* sampleRate.
C2_SymmetricGrid ==
    Made =>
        LET t == series.t
            n == Len(t)
        IN  /\ \A i \in 1..n : t[i] = FNeg(t[n + 1 - i])
            /\ t[((n - 1) \div 2) + 1] = FZero
            /\ \A i \in 1..(n - 1) : FSub(t[i + 1], t[i]) = call.sampleRate

\* C3: computePowerSpectrum raises its ValueError and returns nothing
\* whenever the wavelet has an even number of elements, and whenever wavelet
\* and time vector differ in length; both checks come before anything is
\* derived from the inputs, so no other error can be raised in their place.
C3_LengthChecks ==
    pc = "analyzed" =>
        /\ Len(series.ricker) % 2 = 0 =>
              result = NoResult(EvenMessage)
        /\ (Len(series.ricker) % 2 = 1 /\ Len(series.ricker) # Len(series.t)) =>
              result = NoResult(MismatchMessage)

\* C3 happens: a wavelet of three samples with a time vector of one, which
\* has no second element to derive the sample interval from, is rejected
\* for the mismatch.
C3_Witness ==
    /\ pc = "analyzed"
    /\ Len(series.ricker) = 3
    /\ Len(series.t) = 1
    /\ result.error = MismatchMessage

\* C4: for every parameter set with signalLength < 2 * sampleRate,
\* createRicker returns t = [0] and amplitudes = [scalar], and
\* computePowerSpectrum applied to them returns without error
\* power = [scalar^2], powerNormdB = [0.0], freq = [0.0].
C4_SingleSample ==
    (Made /\ FCmp(call.signalLength, FMul(FromInt(2), call.sampleRate)) < 0) =>
        /\ series.t = <<FZero>>
        /\ series.ricker = <<AmpScale * call.scalar>>
        /\ pc = "analyzed" =>
              /\ result.error = "none"
              /\ result.power = <<(AmpScale * call.scalar) * (AmpScale * call.scalar)>>
              /\ result.powerNormdB = <<[class |-> "finite", centi |-> 0]>>
              /\ result.freq = <<FZero>>

\* C5: for every series of createRicker with indexLimit >= 1, the
\* indexLimit computePowerSpectrum re-derives from the time vector equals
\* the one createRicker used, and power, powerNormdB and freq each have
\* length indexLimit + 1.
C5_SameIndexLimit ==
    (pc = "analyzed" /\ call.kind = "createRicker" /\ UsedIndexLimit >= 1) =>
        /\ result.error = "none"
        /\ RederivedIndexLimit = UsedIndexLimit
        /\ Len(result.power) = UsedIndexLimit + 1
        /\ Len(result.powerNormdB) = UsedIndexLimit + 1
        /\ Len(result.freq) = UsedIndexLimit + 1

\* the one-sided power is P[0], 2 P[1], ..., 2 P[indexLimit], and its total
\* is that of P when P is mirror-symmetric and 2 * indexLimit + 1 long
Folded(P, indexLimit) ==
    /\ Len(result.power) = indexLimit + 1
    /\ \A k \in 1..Len(result.power) :
          result.power[k] = IF k = 1 THEN P[1] ELSE 2 * P[k]
    /\ (Len(P) = 2 * indexLimit + 1 /\ \A k \in 2..Len(P) : P[k] = P[Len(P) + 2 - k])
          => SumOver(result.power, 1, Len(result.power)) = SumOver(P, 1, Len(P))

\* C6: for every input computePowerSpectrum accepts, the one-sided power is
\* [P[0], 2 P[1], ..., 2 P[indexLimit]] with P the two-sided spectrum: the
\* DC bin is not doubled, every bin 1..indexLimit is doubled once, and for
\* a mirror-symmetric P of length 2 * indexLimit + 1 the totals agree.
C6_Folded ==
    Returned => Folded(TwoSidedPower(series.ricker) \o <<>>, RederivedIndexLimit)

\* C6, amended: the same, for the accepted inputs whose re-derived
\* indexLimit is an index of the spectrum (0 <= indexLimit <= len - 1).
C6_FoldedInRange ==
    (Returned /\ RederivedIndexLimit >= 0
              /\ RederivedIndexLimit <= Len(series.ricker) - 1) =>
        Folded(TwoSidedPower(series.ricker) \o <<>>, RederivedIndexLimit)

\* C6 happens: a five-sample wavelet with indexLimit 2 is folded into three
\* bins, the doubled ones not empty.
C6_Witness ==
    /\ Returned
    /\ Len(series.ricker) = 5
    /\ RederivedIndexLimit = 2
    /\ Len(result.power) = 3
    /\ result.power[2] > 0

\* C7: for every series of createRicker that is not all zero, powerNormdB
\* is 0 at the bin holding the largest one-sided power and <= 0 at every
\* other bin.
C7_PeakIsZero ==
    (Returned /\ call.kind = "createRicker"
              /\ \E i \in 1..Len(series.ricker) : series.ricker[i] # 0) =>
        \A k \in 1..Len(result.power) :
            /\ result.powerNormdB[k].class \in {"finite", "-inf"}
            /\ result.powerNormdB[k].centi <= 0
            /\ (\A j \in 1..Len(result.power) : result.power[j] <= result.power[k])
                  => result.powerNormdB[k] = [class |-> "finite", centi |-> 0]

\* C7 happens: a wavelet of negative amplitude whose largest bin is not the
\* DC bin is at 0 dB there and below 0 dB at the DC bin.
C7_Witness ==
    /\ Returned
    /\ call.kind = "createRicker"
    /\ call.scalar < 0
    /\ \E k \in 2..Len(result.power) :
          /\ \A j \in 1..Len(result.power) : result.power[j] <= result.power[k]
          /\ result.power[1] < result.power[k]
          /\ result.powerNormdB[k].centi = 0
          /\ result.powerNormdB[1].centi < 0

\* the displayed series and spectrum of the default parameters: indexLimit
\* 32, 65 samples from -128 to 128 ms, 33 bins 1 / (0.004 * 65) Hz wide
DefaultsAsStated ==
    (/\ fpeak_widget = DefaultFpeak
     /\ scalar_widget = DefaultScalar
     /\ signalLength_widget = DefaultSignalLength
     /\ sampleRate_widget = FromInt(DefaultSampleRate)) =>
        /\ IndexLimitOf(FromInt(DefaultSignalLength), FromInt(DefaultSampleRate)) = 32
        /\ Len(source.x) = 65
        /\ source.x[1] = FromInt(-128)
        /\ source.x[65] = FromInt(128)
        /\ Len(source2.x) = 33
        /\ Round(FMul(source2.x[2], FromInt(260)), 1) = 1000

\* freq[i] = i / (sampleInterval in s * (2 * indexLimit + 1)) for
\* i = 0..indexLimit, up to rounding: it starts at 0 and increases strictly
FrequenciesAsStated ==
    /\ Len(result.freq) = RederivedIndexLimit + 1
    /\ Len(result.freq) >= 1
    /\ result.freq[1] = FZero
    /\ \A i \in 1..(Len(result.freq) - 1) :
          FCmp(result.freq[i], result.freq[i + 1]) < 0
    /\ \A i \in 1..Len(result.freq) :
          Round(FMul(FMul(result.freq[i], DerivedSampleRate),
                     FromInt(2 * RederivedIndexLimit + 1)), 1) = 1000 * (i - 1)

\* C8: for every accepted input freq[i] = i / (sampleInterval_in_seconds *
\* (2 * indexLimit + 1)) for i = 0..indexLimit: freq starts at 0 and is
\* strictly increasing; for the default parameters indexLimit is 32, the
\* time vector has 65 samples from -128 to 128 ms and there are 33 bins
\* 1 / (0.004 * 65) Hz wide.
C8_Frequencies == (Returned => FrequenciesAsStated) /\ DefaultsAsStated

\* C8, amended: the same, for the accepted inputs whose time vector does
\* not run backwards (t[1] > t[0] and t[last] >= t[first]).
C8_FrequenciesForward ==
    /\ (Returned /\ DerivedSampleRate.s > 0
                 /\ FCmp(series.t[Len(series.t)], series.t[1]) >= 0)
          => FrequenciesAsStated
    /\ DefaultsAsStated

\* C8 happens: a forward time vector with indexLimit 2 gets three
\* frequencies.
C8_Witness ==
    /\ Returned
    /\ DerivedSampleRate.s > 0
    /\ RederivedIndexLimit = 2
    /\ Len(result.freq) = 3
    /\ fpeak_widget = DefaultFpeak
    /\ Len(source2.x) = 33

\* C9: once update_data has run for the latest slider change, source and
\* source2 show the series and the spectrum computed from the current
\* values of the four sliders.
C9_DisplayIsCurrent ==
    LET made     == createRicker(fpeak_widget, scalar_widget,
                                 FromInt(signalLength_widget), sampleRate_widget)
        spectrum == computePowerSpectrum(made.ricker, made.t)
    IN  /\ source = ColumnData(made.t, made.ricker)
        /\ source2 = ColumnData(spectrum.freq, spectrum.powerNormdB)

\* C10: in every reachable state source and source2 come from one and the
\* same parameter set: the displayed spectrum is the spectrum of the
\* displayed series.
C10_SourcesAgree ==
    LET shown == computePowerSpectrum(source.y, source.x)
    IN  /\ shown.error = "none"
        /\ source2 = ColumnData(shown.freq, shown.powerNormdB)

\* C10 happens: the wavelet length slider stands at a value whose
\* recomputation raised, and the display is still the earlier one.
C10_Witness ==
    /\ signalLength_widget = 1
    /\ Len(source.x) > 1
    /\ Len(source2.x) > 1

====
